---- MODULE Spec2Model ----
(***************************************************************************)
(* The checkpointed agent loop of 3-ai-agents-in-langgraph/Lesson_4:       *)
(* class Agent (a two-node graph "llm" -> "action" -> "llm", compiled with *)
(* a checkpointer) driven by graph.stream on per-conversation thread ids.  *)
(*                                                                         *)
(* The language model and the search tool are external collaborators.     *)
(* They are modelled as deterministic functions of what they are given:    *)
(* the model follows a plan selected by the text of the latest user        *)
(* message, the tool answers by its arguments.                             *)
(***************************************************************************)
EXTENDS Naturals, Sequences, FiniteSets, TLC

\* ------------------------------------------------------------------ bounds
MaxSubmits == 2
MaxFaults == 1
MaxRounds == 3
MaxRows == 3
MaxRowLen == 2

\* --------------------------------------------------------------- constants
Threads == {"1", "2"}

system == "You are a smart research assistant."

tools == {"tavily_search_results_json"}

UserTexts == {"hello", "weather", "compare", "lookup", "boom"}

Elements == {1, 2}

VARIABLES
    checkpoints,   \* thread_id -> sequence of checkpoints, oldest first
    pc,            \* thread_id -> "idle" | "llm" | "action": the node to run
    state,         \* thread_id -> AgentState.messages of the run in flight
    idx,           \* thread_id -> position of take_action's for loop
    results,       \* thread_id -> take_action's local list `results`
    outcome,       \* thread_id -> how the last run on the thread ended
    returned,      \* thread_id -> content of the last message streamed
    modelInput,    \* thread_id -> the messages last passed to model.invoke
    turns,         \* thread_id -> log of (user message, messages the nodes returned)
    histBefore,    \* thread_id -> history before the last turn that was stored
    submitted,     \* thread_id -> the user message of that turn
    storeAtEntry,  \* thread_id -> checkpoints when the last handler started
    interrupted,   \* thread_id -> some run on the thread failed or crashed
    crashedMid,    \* thread_id -> the turn crashed between two batch items
    thread,        \* caller -> the thread_id of its thread = {...} config
    events,        \* thread_id -> what the graph.stream consumer received
    tokens,        \* thread_id -> what the astream_events consumer printed
    nSubmits,      \* number of stream calls so far
    nFaults,       \* number of injected faults so far
    invocations,   \* thread_id -> the (name, args) the tools were invoked with
    lists,         \* flatten: the list objects, address -> elements
    matrix,        \* flatten: the argument, a list of addresses of rows
    argument,      \* flatten: what the rows held when flatten was called
    flat_list,     \* flatten: address bound to the local flat_list, 0 unbound
    row,           \* flatten: position of the for loop in matrix
    flatten_pc,    \* flatten: "idle" | "call" | "for" | "returned"
    flattened      \* flatten: the address returned, 0 before the return

vars == <<checkpoints, pc, state, idx, results, outcome, returned, modelInput,
          turns, histBefore, submitted, storeAtEntry, interrupted, crashedMid,
          events, tokens, thread, nSubmits, nFaults, invocations,
          lists, matrix, argument, flat_list, row, flatten_pc, flattened>>

flatten_vars == <<lists, matrix, argument, flat_list, row, flatten_pc,
                  flattened>>

agent_vars == <<checkpoints, pc, state, idx, results, outcome, returned,
                modelInput, turns, histBefore, submitted, storeAtEntry,
                interrupted, crashedMid, events, tokens, thread, nSubmits,
                nFaults, invocations>>

\* ---------------------------------------------------------------- messages
Last(sq) == sq[Len(sq)]

NoId == <<>>

HumanMessage(t, c) ==
    [role |-> "user", content |-> c, tool_calls |-> <<>>,
     tool_call_id |-> NoId, name |-> "", origin |-> t]

SystemMessage(c) ==
    [role |-> "system", content |-> c, tool_calls |-> <<>>,
     tool_call_id |-> NoId, name |-> "", origin |-> "agent"]

AIMessage(t, c, calls) ==
    [role |-> "assistant", content |-> c, tool_calls |-> calls,
     tool_call_id |-> NoId, name |-> "", origin |-> t]

ToolMessage(t, id, nm, c) ==
    [role |-> "tool", content |-> c, tool_calls |-> <<>>,
     tool_call_id |-> id, name |-> nm, origin |-> t]

\* ------------------------------------------------- the language model (mock)
\* The decisions the model takes, one per call, for a user text: each a batch
\* of <<tool name, argument>>; after the last batch the model answers.
Plan(u) ==
    CASE u = "hello"   -> <<>>
      [] u = "weather" -> << << <<"tavily_search_results_json", "sf">> >> >>
      [] u = "compare" -> << << <<"tavily_search_results_json", "sf">>,
                                <<"tavily_search_results_json", "la">> >>,
                             << <<"tavily_search_results_json", "la">> >> >>
      [] u = "lookup"  -> << << <<"tavily_search_results_json", "sf">>,
                                <<"wikipedia", "sf">> >> >>
      [] u = "boom"    -> << << <<"tavily_search_results_json", "sf">>,
                                <<"tavily_search_results_json", "boom">> >> >>
      [] OTHER         -> <<>>

Answer(u) ==
    CASE u = "hello"   -> "Hello!"
      [] u = "weather" -> "It is 72F and sunny in SF."
      [] u = "compare" -> "Los Angeles is warmer than San Francisco."
      [] OTHER         -> "I need more context."

\* The text the model writes in its n-th tool-requesting decision: usually
\* none, but a model may announce what it is about to look up.
Said(u, n) ==
    IF u = "compare" /\ n = 1 THEN "Let me check both." ELSE ""

\* The tool calls of the model's n-th decision of a turn, none when it gives
\* its answer.  For "loop" the model asks for the tool on every decision.
Round(u, n) ==
    IF u = "loop" THEN << <<"tavily_search_results_json", "sf">> >>
    ELSE IF n <= Len(Plan(u)) THEN Plan(u)[n]
    ELSE <<>>

LastUserPos(messages) ==
    LET S == {i \in 1..Len(messages) : messages[i].role = "user"}
    IN  IF S = {} THEN 0 ELSE CHOOSE i \in S : \A j \in S : j <= i

AssistantSince(messages) ==
    Cardinality({i \in (LastUserPos(messages) + 1)..Len(messages) :
                    messages[i].role = "assistant"})

\* self.model.invoke(messages): the AIMessage the model returns.  Call ids are
\* fresh per call: the length of the prompt and the position in the batch.
model_invoke(t, messages) ==
    LET p == LastUserPos(messages)
    IN  CHOOSE message \in UNION
            {{IF calls # <<>>
              THEN AIMessage(t, Said(u, n + 1),
                       [i \in 1..Len(calls) |->
                           [id |-> <<Len(messages), i>>,
                            name |-> calls[i][1],
                            args |-> calls[i][2]]])
              ELSE AIMessage(t, Answer(u), <<>>) :
                  calls \in {Round(u, n + 1)}} :
                      u \in {IF p = 0 THEN "" ELSE messages[p].content},
                      n \in {AssistantSince(messages)}} : TRUE

\* The chunks the model streams while it produces a message: their contents
\* add up to the message's content; chunks that carry a tool call, and the
\* first and last chunk of a stream, have empty content.
stream_chunks(message) ==
    LET c == message.content
    IN  CASE c = "" -> <<"", "", "">>
          [] c = "Hello!" -> <<"", "Hello", "!", "">>
          [] c = "It is 72F and sunny in SF." ->
                 <<"", "It is 72F", " and sunny", "", " in SF.", "">>
          [] c = "Los Angeles is warmer than San Francisco." ->
                 <<"", "Los Angeles is warmer", " than San Francisco.", "">>
          [] c = "Let me check both." -> <<"", "Let me", " check both.", "", "">>
          [] OTHER -> <<"", c, "">>

\* ------------------------------------------------------- the tool (mock)
tool_raises(nm, args) == args = "boom"

tool_invoke(nm, args) ==
    CASE args = "sf" -> "72F sunny"
      [] args = "la" -> "77F overcast"
      [] OTHER       -> "no results"

\* ---------------------------------------------------------- the checkpointer
\* The latest persisted ConversationState of a thread; empty if unseen.
load_mutant(cps, t) ==
    IF cps["1"] = <<>> THEN <<>> ELSE cps["1"][Len(cps["1"])].messages

load_unseen_mutant(cps, t) ==
    IF cps[t] # <<>> THEN cps[t][Len(cps[t])].messages
    ELSE IF \E s \in Threads : cps[s] # <<>>
         THEN LET s == CHOOSE s \in Threads : cps[s] # <<>>
              IN  cps[s][Len(cps[s])].messages
         ELSE <<>>

load(cps, t) ==
    IF cps[t] = <<>> THEN <<>> ELSE cps[t][Len(cps[t])].messages

\* One durable write: a new checkpoint after those of the thread.
put_merge_mutant(cps, t, messages, next) ==
    LET prev == load(cps, t)
        new  == SelectSeq(messages,
                          LAMBDA m : ~\E k \in DOMAIN prev : prev[k] = m)
    IN  [cps EXCEPT ![t] = Append(@, [step |-> Len(@),
                                      messages |-> prev \o new,
                                      next |-> next])]

put_mutant(cps, t, messages, next) ==
    [s \in Threads |->
        Append(cps[s], [step |-> Len(cps[s]), messages |-> messages,
                        next |-> next])]

put(cps, t, messages, next) ==
    [cps EXCEPT ![t] = Append(@, [step |-> Len(@), messages |-> messages,
                                  next |-> next])]

get_history(t) == load(checkpoints, t)

\* messages: Annotated[list[AnyMessage], operator.add]
reducer_mutant(old, update) == update

reducer_prepend_mutant(old, update) == update \o old

reducer(old, update) == old \o update

\* ------------------------------------------------------------------ Agent
with_system_mutant(messages) ==
    <<SystemMessage(system)>>
        \o SubSeq(messages, LastUserPos(messages), Len(messages))

with_system_first_mutant(messages) ==
    IF Len(messages) = 1 THEN <<SystemMessage(system)>> \o messages
    ELSE messages

with_system(messages) ==
    IF system # "" THEN <<SystemMessage(system)>> \o messages ELSE messages

\* return {'messages': [message]}: the node's update holds the model's reply
\* and nothing of the local list messages.
call_openai_return_mutant(messages, message) == <<Head(messages), message>>

call_openai_return(messages, message) == <<message>>

exists_action_limit_mutant(messages) ==
    /\ Len(messages[Len(messages)].tool_calls) > 0
    /\ AssistantSince(messages) < 2

exists_action_content_mutant(messages) ==
    messages[Len(messages)].content = ""

exists_action_mutant(messages) ==
    Len(messages[Len(messages)].tool_calls) > 1

exists_action(messages) ==
    Len(messages[Len(messages)].tool_calls) > 0

tool_message_mutant(t, call, result) ==
    ToolMessage(t, <<call.name>>, call.name, result)

tool_message(t, call, result) ==
    ToolMessage(t, call.id, call.name, result)

collect_mutant(res, m) == <<m>> \o res

collect(res, m) == Append(res, m)

\* ------------------------------------------------------------ consumers
\* for event in abot.graph.stream(...): one event per node that ran, carrying
\* the node's update.
emit_mutant(evs, node, update) ==
    evs \o [j \in DOMAIN update |-> [node |-> node, messages |-> <<update[j]>>]]

emit(evs, node, update) ==
    Append(evs, [node |-> node, messages |-> update])

\* async for event in abot.graph.astream_events(...): of the events of kind
\* on_chat_model_stream, the content of the chunk is printed if it is not
\* empty.
on_chat_model_stream(printed, chunks) ==
    printed \o SelectSeq(chunks, LAMBDA content : content # "")

\* --------------------------------------------------------------- bookkeeping
\* The log of a thread is kept as long as every run on it went through; it is
\* dropped at the first failure.
LogTurn(t, u) ==
    IF interrupted[t] THEN turns
    ELSE [turns EXCEPT ![t] = Append(@, [user |-> u, produced |-> <<>>])]

LogProduced(t, update) ==
    IF interrupted[t] THEN turns
    ELSE [turns EXCEPT ![t][Len(turns[t])].produced = @ \o update]

\* What the consumers of the thread's stream hold after a node has returned
\* its update.  The consumers of a thread that was interrupted are not
\* followed any further.
Received(t, node, update) ==
    IF interrupted[t] THEN events
    ELSE [events EXCEPT ![t] = emit(@, node, update)]

\* The tools' record of their invocations after one more, kept like the
\* consumers' records.
Invoked(t, call) ==
    IF interrupted[t] THEN invocations
    ELSE [invocations EXCEPT ![t] =
             Append(@, [name |-> call.name, args |-> call.args])]

Printed(t, message) ==
    IF interrupted[t] THEN tokens
    ELSE [tokens EXCEPT ![t] =
             on_chat_model_stream(@, stream_chunks(message))]

Fail(t, what) ==
    /\ pc' = [pc EXCEPT ![t] = "idle"]
    /\ state' = [state EXCEPT ![t] = <<>>]
    /\ idx' = [idx EXCEPT ![t] = 1]
    /\ results' = [results EXCEPT ![t] = <<>>]
    /\ outcome' = [outcome EXCEPT ![t] = what]
    /\ interrupted' = [interrupted EXCEPT ![t] = TRUE]
    /\ turns' = [turns EXCEPT ![t] = <<>>]
    /\ events' = [events EXCEPT ![t] = <<>>]
    /\ tokens' = [tokens EXCEPT ![t] = <<>>]
    /\ invocations' = [invocations EXCEPT ![t] = <<>>]

Fault == /\ nFaults < MaxFaults
         /\ nFaults' = nFaults + 1

Fresh ==
    /\ checkpoints = [t \in Threads |-> <<>>]
    /\ pc = [t \in Threads |-> "idle"]
    /\ state = [t \in Threads |-> <<>>]
    /\ idx = [t \in Threads |-> 1]
    /\ results = [t \in Threads |-> <<>>]
    /\ outcome = [t \in Threads |-> "none"]
    /\ returned = [t \in Threads |-> ""]
    /\ modelInput = [t \in Threads |-> <<>>]
    /\ turns = [t \in Threads |-> <<>>]
    /\ histBefore = [t \in Threads |-> <<>>]
    /\ submitted = [t \in Threads |-> HumanMessage(t, "")]
    /\ storeAtEntry = [t \in Threads |-> <<>>]
    /\ interrupted = [t \in Threads |-> FALSE]
    /\ crashedMid = [t \in Threads |-> FALSE]
    /\ events = [t \in Threads |-> <<>>]
    /\ tokens = [t \in Threads |-> <<>>]
    /\ invocations = [t \in Threads |-> <<>>]
    /\ nSubmits = 0
    /\ nFaults = 0

\* No call of flatten is in progress and none was made.
NoFlatten ==
    /\ lists = <<>>
    /\ matrix = <<>>
    /\ argument = <<>>
    /\ flat_list = 0
    /\ row = 0
    /\ flatten_pc = "idle"
    /\ flattened = 0

\* ------------------------------------------------------------ graph.stream
\* for event in abot.graph.stream({"messages": messages}, thread): the call
\* loads the thread's state, adds the input through the reducer, writes the
\* input checkpoint and enters the graph at its entry point "llm".
stream_ok(t, u) ==
    /\ pc[t] = "idle"
    /\ nSubmits < MaxSubmits
    /\ LET before == load(checkpoints, thread[t])
           input  == <<HumanMessage(thread[t], u)>>
           st     == reducer(before, input)
       IN  /\ histBefore' = [histBefore EXCEPT ![t] = before]
           /\ submitted' = [submitted EXCEPT ![t] = input[1]]
           /\ storeAtEntry' = [storeAtEntry EXCEPT ![t] = checkpoints[thread[t]]]
           /\ turns' = LogTurn(t, input[1])
           /\ checkpoints' = put(checkpoints, thread[t], st, "llm")
           /\ state' = [state EXCEPT ![t] = st]
           /\ pc' = [pc EXCEPT ![t] = "llm"]
           /\ outcome' = [outcome EXCEPT ![t] = "running"]
    /\ idx' = [idx EXCEPT ![t] = 1]
    /\ results' = [results EXCEPT ![t] = <<>>]
    /\ crashedMid' = [crashedMid EXCEPT ![t] = FALSE]
    /\ events' = [events EXCEPT ![t] = <<>>]
    /\ tokens' = [tokens EXCEPT ![t] = <<>>]
    /\ nSubmits' = nSubmits + 1
    /\ UNCHANGED <<returned, modelInput, interrupted, thread, flatten_vars,
                   invocations, nFaults>>

\* The same call when the write of the input checkpoint fails.
stream_storage_error(t, u) ==
    /\ pc[t] = "idle"
    /\ nSubmits < MaxSubmits
    /\ Fault
    /\ storeAtEntry' = [storeAtEntry EXCEPT ![t] = checkpoints[thread[t]]]
    /\ Fail(t, "StorageError")
    /\ crashedMid' = [crashedMid EXCEPT ![t] = FALSE]
    /\ nSubmits' = nSubmits + 1
    /\ UNCHANGED <<checkpoints, returned, modelInput, histBefore, submitted,
                   thread, flatten_vars>>

stream(t) ==
    \E u \in UserTexts : stream_ok(t, u) \/ stream_storage_error(t, u)

\* ------------------------------------------------------- node "llm"
\* call_openai, the reducer, the checkpoint after the node and the conditional
\* edge exists_action: {True: "action", False: END}.  message is the one
\* reply of the model, st the state after the reducer.
call_openai_ok(t) ==
    /\ pc[t] = "llm"
    /\ \E messages \in {with_system(state[t])} :
       \E message \in {model_invoke(thread[t], messages)} :
       \E st \in {reducer(state[t], call_openai_return(messages, message))} :
       LET update == call_openai_return(messages, message)
           next   == IF exists_action(st) THEN "action" ELSE "END"
       IN  /\ modelInput' = [modelInput EXCEPT ![t] = messages]
           /\ storeAtEntry' = [storeAtEntry EXCEPT ![t] = checkpoints[thread[t]]]
           /\ turns' = LogProduced(t, update)
           /\ events' = Received(t, "llm", update)
           /\ tokens' = Printed(t, message)
           /\ checkpoints' = put(checkpoints, thread[t], st, next)
           /\ IF next = "action"
              THEN /\ pc' = [pc EXCEPT ![t] = "action"]
                   /\ state' = [state EXCEPT ![t] = st]
                   /\ UNCHANGED <<outcome, returned>>
              ELSE /\ pc' = [pc EXCEPT ![t] = "idle"]
                   /\ state' = [state EXCEPT ![t] = <<>>]
                   /\ outcome' = [outcome EXCEPT ![t] = "final"]
                   /\ returned' = [returned EXCEPT ![t] = message.content]
    /\ idx' = [idx EXCEPT ![t] = 1]
    /\ results' = [results EXCEPT ![t] = <<>>]
    /\ UNCHANGED <<histBefore, submitted, interrupted, crashedMid, thread, flatten_vars,
                   invocations,
                   nSubmits, nFaults>>

\* self.model.invoke raises: nothing catches it, the run ends with the error.
call_openai_model_error_mutant(t) ==
    /\ pc[t] = "llm"
    /\ Fault
    /\ modelInput' = [modelInput EXCEPT ![t] = with_system(state[t])]
    /\ storeAtEntry' = [storeAtEntry EXCEPT ![t] = checkpoints[thread[t]]]
    /\ outcome' = [outcome EXCEPT ![t] = "ModelUnavailableError"]
    /\ interrupted' = [interrupted EXCEPT ![t] = TRUE]
    /\ UNCHANGED <<checkpoints, pc, state, idx, results, returned, turns,
                   histBefore, submitted, crashedMid, events, tokens, thread, flatten_vars,
                   invocations,
                   nSubmits>>

call_openai_model_error(t) ==
    /\ pc[t] = "llm"
    /\ Fault
    /\ modelInput' = [modelInput EXCEPT ![t] = with_system(state[t])]
    /\ storeAtEntry' = [storeAtEntry EXCEPT ![t] = checkpoints[thread[t]]]
    /\ Fail(t, "ModelUnavailableError")
    /\ UNCHANGED <<checkpoints, returned, histBefore, submitted, crashedMid,
                   thread, flatten_vars, nSubmits>>

\* The model answered and the write of the checkpoint after the node fails.
call_openai_storage_error_mutant(t) ==
    /\ pc[t] = "llm"
    /\ Fault
    /\ LET messages == with_system(state[t])
           update   == <<model_invoke(thread[t], messages)>>
       IN  /\ modelInput' = [modelInput EXCEPT ![t] = messages]
           /\ checkpoints' = put(checkpoints, thread[t], reducer(state[t], update),
                                  "llm")
    /\ storeAtEntry' = [storeAtEntry EXCEPT ![t] = checkpoints[thread[t]]]
    /\ Fail(t, "StorageError")
    /\ UNCHANGED <<returned, histBefore, submitted, crashedMid, thread, flatten_vars,
                   nSubmits>>

call_openai_storage_error(t) ==
    /\ pc[t] = "llm"
    /\ Fault
    /\ modelInput' = [modelInput EXCEPT ![t] = with_system(state[t])]
    /\ storeAtEntry' = [storeAtEntry EXCEPT ![t] = checkpoints[thread[t]]]
    /\ Fail(t, "StorageError")
    /\ UNCHANGED <<checkpoints, returned, histBefore, submitted, crashedMid,
                   thread, flatten_vars, nSubmits>>

call_openai(t) ==
    \/ call_openai_ok(t)
    \/ call_openai_model_error(t)
    \/ call_openai_storage_error(t)

\* ------------------------------------------------------- node "action"
\* take_action: for t in tool_calls, one iteration per step (the tool call is
\* where the run waits); the last iteration also returns {'messages': results},
\* which the reducer adds and the checkpoint after the node persists.
tool_calls_of(t) == state[t][Len(state[t])].tool_calls

current_call_mutant(t) == tool_calls_of(t)[1]

current_call(t) == tool_calls_of(t)[idx[t]]

\* self.tools[t['name']] with a name that is no key of self.tools: KeyError.
take_action_KeyError_mutant(t) ==
    /\ pc[t] = "action"
    /\ current_call(t).name \notin tools
    /\ storeAtEntry' = [storeAtEntry EXCEPT ![t] = checkpoints[thread[t]]]
    /\ checkpoints' = put(checkpoints, thread[t], reducer(state[t], results[t]), "llm")
    /\ Fail(t, "KeyError")
    /\ UNCHANGED <<returned, modelInput, histBefore, submitted, crashedMid,
                   thread, flatten_vars, nSubmits, nFaults>>

take_action_KeyError(t) ==
    /\ pc[t] = "action"
    /\ current_call(t).name \notin tools
    /\ storeAtEntry' = [storeAtEntry EXCEPT ![t] = checkpoints[thread[t]]]
    /\ Fail(t, "KeyError")
    /\ UNCHANGED <<checkpoints, returned, modelInput, histBefore, submitted,
                   crashedMid, thread, flatten_vars, nSubmits, nFaults>>

\* .invoke(t['args']) raises: the loop has no try/except, the exception leaves
\* take_action and the graph.
take_action_raise(t) ==
    /\ pc[t] = "action"
    /\ current_call(t).name \in tools
    /\ tool_raises(current_call(t).name, current_call(t).args)
    /\ storeAtEntry' = [storeAtEntry EXCEPT ![t] = checkpoints[thread[t]]]
    /\ Fail(t, "ToolException")
    /\ UNCHANGED <<checkpoints, returned, modelInput, histBefore, submitted,
                   crashedMid, thread, flatten_vars, nSubmits, nFaults>>

invoked(t) ==
    LET c == current_call(t)
    IN  collect(results[t], tool_message(thread[t], c, tool_invoke(c.name, c.args)))

take_action_next_skip_mutant(t) ==
    /\ pc[t] = "action"
    /\ current_call(t).name \in tools
    /\ ~tool_raises(current_call(t).name, current_call(t).args)
    /\ idx[t] < Len(tool_calls_of(t))
    /\ idx' = [idx EXCEPT ![t] = @ + 1]
    /\ storeAtEntry' = [storeAtEntry EXCEPT ![t] = checkpoints[thread[t]]]
    /\ UNCHANGED <<checkpoints, pc, state, results, outcome, returned,
                   modelInput, turns, histBefore, submitted, interrupted,
                   crashedMid, events, tokens, thread, flatten_vars,
                   invocations, nSubmits,
                   nFaults>>

take_action_next(t) ==
    /\ pc[t] = "action"
    /\ invocations' = Invoked(t, current_call(t))
    /\ current_call(t).name \in tools
    /\ ~tool_raises(current_call(t).name, current_call(t).args)
    /\ idx[t] < Len(tool_calls_of(t))
    /\ results' = [results EXCEPT ![t] = invoked(t)]
    /\ idx' = [idx EXCEPT ![t] = @ + 1]
    /\ storeAtEntry' = [storeAtEntry EXCEPT ![t] = checkpoints[thread[t]]]
    /\ UNCHANGED <<checkpoints, pc, state, outcome, returned, modelInput,
                   turns, histBefore, submitted, interrupted, crashedMid,
                   events, tokens, thread, flatten_vars, nSubmits, nFaults>>

take_action_return_mutant(t) ==
    /\ pc[t] = "action"
    /\ invocations' = Invoked(t, current_call(t))
    /\ current_call(t).name \in tools
    /\ ~tool_raises(current_call(t).name, current_call(t).args)
    /\ idx[t] = Len(tool_calls_of(t))
    /\ LET update == invoked(t)
           st     == reducer(state[t], update)
       IN  /\ turns' = LogProduced(t, update)
           /\ events' = Received(t, "action", update)
           /\ checkpoints' = put(checkpoints, thread[t], st, "END")
           /\ returned' = [returned EXCEPT ![t] = Last(update).content]
    /\ state' = [state EXCEPT ![t] = <<>>]
    /\ pc' = [pc EXCEPT ![t] = "idle"]
    /\ outcome' = [outcome EXCEPT ![t] = "final"]
    /\ idx' = [idx EXCEPT ![t] = 1]
    /\ results' = [results EXCEPT ![t] = <<>>]
    /\ storeAtEntry' = [storeAtEntry EXCEPT ![t] = checkpoints[thread[t]]]
    /\ UNCHANGED <<modelInput, histBefore, submitted, interrupted, crashedMid,
                   tokens, thread, flatten_vars, nSubmits, nFaults>>

take_action_return_stuck_mutant(t) ==
    /\ pc[t] = "action"
    /\ current_call(t).name \in tools
    /\ ~tool_raises(current_call(t).name, current_call(t).args)
    /\ idx[t] = Len(tool_calls_of(t))
    /\ idx' = [idx EXCEPT ![t] = 1]
    /\ results' = [results EXCEPT ![t] = <<>>]
    /\ storeAtEntry' = [storeAtEntry EXCEPT ![t] = checkpoints[thread[t]]]
    /\ UNCHANGED <<checkpoints, pc, state, outcome, returned, modelInput,
                   turns, histBefore, submitted, interrupted, crashedMid,
                   events, tokens, thread, flatten_vars,
                   invocations, nSubmits, nFaults>>

take_action_return(t) ==
    /\ pc[t] = "action"
    /\ invocations' = Invoked(t, current_call(t))
    /\ current_call(t).name \in tools
    /\ ~tool_raises(current_call(t).name, current_call(t).args)
    /\ idx[t] = Len(tool_calls_of(t))
    /\ LET update == invoked(t)
           st     == reducer(state[t], update)
       IN  /\ turns' = LogProduced(t, update)
           /\ events' = Received(t, "action", update)
           /\ checkpoints' = put(checkpoints, thread[t], st, "llm")
           /\ state' = [state EXCEPT ![t] = st]
    /\ pc' = [pc EXCEPT ![t] = "llm"]
    /\ idx' = [idx EXCEPT ![t] = 1]
    /\ results' = [results EXCEPT ![t] = <<>>]
    /\ storeAtEntry' = [storeAtEntry EXCEPT ![t] = checkpoints[thread[t]]]
    /\ UNCHANGED <<outcome, returned, modelInput, histBefore, submitted,
                   interrupted, crashedMid, tokens, thread, flatten_vars, nSubmits,
                   nFaults>>

take_action_storage_error(t) ==
    /\ pc[t] = "action"
    /\ current_call(t).name \in tools
    /\ ~tool_raises(current_call(t).name, current_call(t).args)
    /\ idx[t] = Len(tool_calls_of(t))
    /\ Fault
    /\ storeAtEntry' = [storeAtEntry EXCEPT ![t] = checkpoints[thread[t]]]
    /\ Fail(t, "StorageError")
    /\ UNCHANGED <<checkpoints, returned, modelInput, histBefore, submitted,
                   crashedMid, thread, flatten_vars, nSubmits>>

take_action(t) ==
    \/ take_action_KeyError(t)
    \/ take_action_raise(t)
    \/ take_action_next(t)
    \/ take_action_return(t)
    \/ take_action_storage_error(t)

\* ------------------------------------------------- interruption and resumption
\* The process running the graph dies: the working copy and take_action's
\* locals are lost, the checkpoints stay.
Crash_mutant(t) ==
    /\ pc[t] \in {"llm", "action"}
    /\ Fault
    /\ crashedMid' = [crashedMid EXCEPT ![t] =
                         @ \/ (pc[t] = "action" /\ idx[t] > 1)]
    /\ checkpoints' =
           IF results[t] = <<>> THEN checkpoints
           ELSE put(checkpoints, thread[t], reducer(state[t], results[t]),
                    "action")
    /\ Fail(t, "crashed")
    /\ UNCHANGED <<returned, modelInput, histBefore, submitted, storeAtEntry,
                   thread, flatten_vars, nSubmits>>

Crash(t) ==
    /\ pc[t] \in {"llm", "action"}
    /\ Fault
    /\ crashedMid' = [crashedMid EXCEPT ![t] =
                         @ \/ (pc[t] = "action" /\ idx[t] > 1)]
    /\ Fail(t, "crashed")
    /\ UNCHANGED <<checkpoints, returned, modelInput, histBefore, submitted,
                   storeAtEntry, thread, flatten_vars, nSubmits>>

\* The node a run resumed from a checkpoint starts with.
resume_node_mutant(ck) == "llm"

resume_node(ck) == ck.next

\* The stored state is reloaded and the run goes on from the thread's last
\* checkpoint, at the node that was to run next.
Resume(t) ==
    /\ pc[t] = "idle"
    /\ outcome[t] \notin {"none", "final", "running"}
    /\ checkpoints[thread[t]] # <<>>
    /\ LET ck == checkpoints[thread[t]][Len(checkpoints[thread[t]])]
       IN  /\ resume_node(ck) # "END"
           /\ pc' = [pc EXCEPT ![t] = resume_node(ck)]
           /\ state' = [state EXCEPT ![t] = ck.messages]
    /\ idx' = [idx EXCEPT ![t] = 1]
    /\ results' = [results EXCEPT ![t] = <<>>]
    /\ outcome' = [outcome EXCEPT ![t] = "running"]
    /\ UNCHANGED <<checkpoints, returned, modelInput, turns, histBefore,
                   submitted, storeAtEntry, interrupted, crashedMid, events,
                   tokens, thread, flatten_vars,
                   invocations, nSubmits, nFaults>>

\* Each caller keeps to a thread_id of its own, as the cells of the notebook do.
Init ==
    /\ thread = [c \in Threads |-> c]
    /\ Fresh
    /\ NoFlatten

Next ==
    \E t \in Threads :
        \/ stream(t)
        \/ call_openai(t)
        \/ take_action(t)
        \/ Crash(t)
        \/ Resume(t)

Spec == Init /\ [][Next]_vars

\* Nothing in Agent, in the compiled graph or in the checkpointer keeps a second
\* caller from streaming on a thread_id that is in use: two callers whose
\* config names the same thread_id.
InitRace ==
    /\ thread = [c \in Threads |-> "1"]
    /\ Fresh
    /\ NoFlatten

SpecRace == InitRace /\ [][Next]_vars

\* A node of the graph that runs and returns or raises: what a run that is not
\* cut short from outside does next.
NodeStep(s) ==
    \/ call_openai_ok(s)
    \/ take_action_next(s)
    \/ take_action_return(s)
    \/ take_action_KeyError(s)
    \/ take_action_raise(s)

\* The runs in which every model call and every write of the checkpointer
\* returns and no process dies.  graph.stream drives the run of each thread
\* from node to node until END or an exception: a run that has a node to run
\* is not left waiting forever.
NextLive ==
    \E t \in Threads :
        \/ \E u \in UserTexts : stream_ok(t, u)
        \/ NodeStep(t)

LiveSpec ==
    Init /\ [][NextLive]_vars /\ \A t \in Threads : WF_vars(NodeStep(t))

\* The runs with a model that may ask for the tool on every decision.  The
\* graph has no iteration limit; the runs are cut off here after MaxRounds
\* decisions of a turn.
LoopTexts == {"loop", "compare"}

NextLoop ==
    \E t \in Threads :
        \/ \E u \in LoopTexts : stream_ok(t, u)
        \/ AssistantSince(state[t]) < MaxRounds /\ call_openai_ok(t)
        \/ take_action_next(t)
        \/ take_action_return(t)

SpecLoop == Init /\ [][NextLoop]_vars

\* Two callers on one thread_id whose model calls, tool calls and writes all
\* return.
RaceTexts == {"hello", "weather", "compare"}

NextRaceRuns ==
    \E t \in Threads :
        \/ \E u \in RaceTexts : stream_ok(t, u)
        \/ call_openai_ok(t)
        \/ take_action_next(t)
        \/ take_action_return(t)

SpecRaceRuns == InitRace /\ [][NextRaceRuns]_vars

\* The caller makes the generator graph.stream(...) and drops it, or leaves
\* the for loop, before the graph has written the checkpoint of the input:
\* nothing has run and nothing is written.
stream_abandoned_mutant(t, u) ==
    /\ pc[t] = "idle"
    /\ nSubmits < MaxSubmits
    /\ outcome' = [outcome EXCEPT ![t] = "abandoned"]
    /\ storeAtEntry' = [storeAtEntry EXCEPT ![t] = checkpoints[thread[t]]]
    /\ checkpoints' =
           put(checkpoints, thread[t],
               reducer(load(checkpoints, thread[t]),
                       <<HumanMessage(thread[t], u)>>), "llm")
    /\ nSubmits' = nSubmits + 1
    /\ UNCHANGED <<pc, state, idx, results, returned, modelInput, turns,
                   histBefore, submitted, interrupted, crashedMid, events,
                   tokens, thread, flatten_vars,
                   invocations, nFaults>>

stream_abandoned(t, u) ==
    /\ pc[t] = "idle"
    /\ nSubmits < MaxSubmits
    /\ outcome' = [outcome EXCEPT ![t] = "abandoned"]
    /\ storeAtEntry' = [storeAtEntry EXCEPT ![t] = checkpoints[thread[t]]]
    /\ nSubmits' = nSubmits + 1
    /\ UNCHANGED <<checkpoints, pc, state, idx, results, returned, modelInput,
                   turns, histBefore, submitted, interrupted, crashedMid,
                   events, tokens, thread, flatten_vars,
                   invocations, nFaults>>

NextAbandon ==
    \E t \in Threads :
        \/ \E u \in UserTexts : stream_ok(t, u) \/ stream_abandoned(t, u)
        \/ NodeStep(t)

SpecAbandon == Init /\ [][NextAbandon]_vars

\* ----------------------------------------------------------------- flatten
\* def flatten(matrix): lists are objects, so the model keeps a store of list
\* objects by address; matrix holds the addresses of its rows.
Rows == UNION {[1..n -> Elements] : n \in 0..MaxRowLen}

\* flatten([[1, 2], [3, 4]]), the call the notebook records the output of.
Recorded == << <<1, 2>>, <<3, 4>> >>

Matrices == UNION {[1..n -> Rows] : n \in 0..MaxRows} \cup {Recorded}

\* flat_list += row on a list: list.__iadd__ extends the left operand in place
\* with the elements of row, in row's order.
iadd_mutant(left, right) == right \o left

iadd(left, right) == left \o right

\* The address of a list object that does not exist yet.
new_list == Len(matrix) + 1

InitFlatten ==
    /\ thread = [c \in Threads |-> c]
    /\ Fresh
    /\ argument \in Matrices
    /\ matrix = [i \in DOMAIN argument |-> i]
    /\ lists = argument
    /\ flat_list = 0
    /\ row = 0
    /\ flatten_pc = "call"
    /\ flattened = 0

\* flat_list = []
flatten_call ==
    /\ flatten_pc = "call"
    /\ lists' = lists \o << <<>> >>
    /\ flat_list' = new_list
    /\ row' = 1
    /\ flatten_pc' = "for"
    /\ UNCHANGED <<agent_vars, matrix, argument, flattened>>

\* for row in matrix: flat_list += row
flatten_for ==
    /\ flatten_pc = "for"
    /\ row <= Len(matrix)
    /\ lists' = [lists EXCEPT ![flat_list] = iadd(@, lists[matrix[row]])]
    /\ row' = row + 1
    /\ UNCHANGED <<agent_vars, matrix, argument, flat_list, flatten_pc,
                   flattened>>

\* return flat_list
flatten_return ==
    /\ flatten_pc = "for"
    /\ row > Len(matrix)
    /\ flattened' = flat_list
    /\ flatten_pc' = "returned"
    /\ UNCHANGED <<agent_vars, lists, matrix, argument, flat_list, row>>

flatten == flatten_call \/ flatten_for \/ flatten_return

SpecFlatten == InitFlatten /\ [][flatten]_vars

TypeOK ==
    /\ \A t \in Threads : pc[t] \in {"idle", "llm", "action"}
    /\ nSubmits <= MaxSubmits
    /\ nFaults <= MaxFaults

\* ================================================================== claims

\* Every message sequence a thread has persisted or holds in its working copy.
Logs(t) ==
    {checkpoints[t][k].messages : k \in DOMAIN checkpoints[t]} \cup {state[t]}

RECURSIVE Transcript(_)
Transcript(log) ==
    IF log = <<>> THEN <<>>
    ELSE Transcript(SubSeq(log, 1, Len(log) - 1))
             \o <<Last(log).user>> \o Last(log).produced

\* C1: after N turns on one thread, each run to completion, get_history is the
\* concatenation, in submission order, of each turn's user message followed by
\* the messages the nodes returned in that turn.
C1_HistoryIsConcatenation ==
    \A t \in Threads :
        (pc[t] = "idle" /\ ~interrupted[t])
            => get_history(t) = Transcript(turns[t])

C1_Witness ==
    \E t \in Threads :
        /\ pc[t] = "idle" /\ ~interrupted[t]
        /\ Len(turns[t]) = 2
        /\ Len(turns[t][1].produced) > 1
        /\ Len(turns[t][2].produced) > 1

\* C2: the history and every checkpoint of a thread hold only messages
\* submitted to or produced for that thread, and every prompt passed to the
\* model for a thread holds, besides the system message, only its messages.
C2_ThreadIsolation ==
    \A t \in Threads :
        /\ \A h \in Logs(t) : \A i \in DOMAIN h : h[i].origin = t
        /\ \A i \in DOMAIN modelInput[t] :
               modelInput[t][i].role # "system" => modelInput[t][i].origin = t

C2_Witness ==
    /\ \A t \in Threads : Len(get_history(t)) > 1 /\ modelInput[t] # <<>>
    /\ get_history("1") # get_history("2")

\* C3: the tool messages that follow an assistant message carry, position by
\* position, the ids of that message's tool_calls; so does take_action's list
\* of results while the batch is running.
ToolRun(h, i, j) ==
    \A k \in 1..j : i + k <= Len(h) /\ h[i + k].role = "tool"

C3_ToolMessagesInRequestOrder ==
    \A t \in Threads :
        /\ \A h \in Logs(t) : \A i \in DOMAIN h :
               h[i].role = "assistant" =>
                   \A j \in 1..Len(h) :
                       ToolRun(h, i, j) =>
                           /\ j <= Len(h[i].tool_calls)
                           /\ h[i + j].tool_call_id = h[i].tool_calls[j].id
        /\ pc[t] = "action" =>
               \A j \in DOMAIN results[t] :
                   results[t][j].tool_call_id = tool_calls_of(t)[j].id

C3_Witness ==
    \E t \in Threads :
        LET h == get_history(t)
        IN  \E i \in DOMAIN h :
                /\ h[i].role = "assistant"
                /\ Len(h[i].tool_calls) = 2
                /\ ToolRun(h, i, 2)
                /\ h[i + 1].tool_call_id # h[i + 2].tool_call_id

\* C4: each tool message's tool_call_id is the id of a tool call carried by an
\* assistant message that precedes it in the same thread.
C4_ToolCallIdMatchesEarlierCall ==
    \A t \in Threads : \A h \in Logs(t) : \A i \in DOMAIN h :
        h[i].role = "tool" =>
            \E k \in 1..(i - 1) :
                /\ h[k].role = "assistant"
                /\ h[k].origin = t
                /\ \E c \in DOMAIN h[k].tool_calls :
                       h[k].tool_calls[c].id = h[i].tool_call_id

C4_Witness ==
    \E t \in Threads :
        \E i \in DOMAIN get_history(t) : get_history(t)[i].role = "tool"

\* C5: a turn on an empty thread whose model asks for tools in k decisions and
\* then answers leaves exactly: the user message, per round one assistant
\* message with the round's tool_calls and one tool message per call, then one
\* assistant message with the answer, which is what the caller gets.
RECURSIVE RoundsFrom(_, _, _, _, _)
RoundsFrom(h, pos, plan, r, answer) ==
    IF r > Len(plan)
    THEN /\ pos = Len(h)
         /\ h[pos].role = "assistant"
         /\ h[pos].tool_calls = <<>>
         /\ h[pos].content = answer
    ELSE LET n == Len(plan[r])
         IN  /\ pos + n < Len(h)
             /\ h[pos].role = "assistant"
             /\ Len(h[pos].tool_calls) = n
             /\ \A j \in 1..n :
                    /\ h[pos].tool_calls[j].name = plan[r][j][1]
                    /\ h[pos].tool_calls[j].args = plan[r][j][2]
                    /\ h[pos + j].role = "tool"
                    /\ h[pos + j].tool_call_id = h[pos].tool_calls[j].id
                    /\ h[pos + j].content =
                           tool_invoke(plan[r][j][1], plan[r][j][2])
             /\ RoundsFrom(h, pos + n + 1, plan, r + 1, answer)

C5_FirstTurnHistory ==
    \A t \in Threads :
        (outcome[t] = "final" /\ histBefore[t] = <<>>) =>
            LET h == get_history(t)
                u == submitted[t].content
            IN  /\ Len(h) >= 2
                /\ h[1] = submitted[t]
                /\ RoundsFrom(h, 2, Plan(u), 1, Answer(u))
                /\ returned[t] = Answer(u)

C5_Witness ==
    \E t \in Threads :
        /\ outcome[t] = "final" /\ histBefore[t] = <<>>
        /\ Len(Plan(submitted[t].content)) = 2
        /\ Len(get_history(t)) = 7

\* C6 as stated: after a turn that failed on a tool name missing from the
\* registry, the history is what it was before the submit.
C6_UnknownToolHistoryUnchanged ==
    \A t \in Threads :
        outcome[t] = "KeyError" => get_history(t) = histBefore[t]

\* C6 as amended: such a turn fails, no tool message of the failing batch is
\* persisted, and the history is the one before the submit followed by the
\* user message and what was checkpointed before the batch, ending with the
\* assistant message that asked for the missing tool.
C6_UnknownToolKeepsCheckpointed ==
    \A t \in Threads :
        outcome[t] = "KeyError" =>
            LET h == get_history(t)
                b == histBefore[t]
            IN  /\ pc[t] = "idle"
                /\ Len(h) >= Len(b) + 2
                /\ SubSeq(h, 1, Len(b)) = b
                /\ h[Len(b) + 1] = submitted[t]
                /\ Last(h).role = "assistant"
                /\ \E c \in DOMAIN Last(h).tool_calls :
                       Last(h).tool_calls[c].name \notin tools

C6_Witness ==
    \E t \in Threads :
        /\ outcome[t] = "KeyError"
        /\ Len(Last(get_history(t)).tool_calls) = 2
        /\ Last(get_history(t)).tool_calls[1].name \in tools

\* C7: a tool that raises does not end the turn with its exception (the failure
\* is reported in a tool message and the loop goes on to the model).
C7_ToolFailureNotPropagated ==
    \A t \in Threads : outcome[t] # "ToolException"

\* C8: when model.invoke fails the run ends there, without another call, and
\* what is persisted is the last checkpoint written before the call, with no
\* message of the failed step.
C8_ModelErrorKeepsLastCheckpoint ==
    \A t \in Threads :
        outcome[t] = "ModelUnavailableError" =>
            /\ pc[t] = "idle"
            /\ checkpoints[t] = storeAtEntry[t]
            /\ checkpoints[t] # <<>>
            /\ Last(checkpoints[t]).next = "llm"
            /\ Last(get_history(t)).role \in {"user", "tool"}
            /\ with_system(get_history(t)) = modelInput[t]

C8_Witness ==
    \E t \in Threads :
        /\ outcome[t] = "ModelUnavailableError"
        /\ Last(get_history(t)).role = "tool"

RECURSIVE RunTurn(_, _)
RunTurn(t, messages) ==
    LET message == model_invoke(t, with_system(messages))
        st      == messages \o <<message>>
        calls   == message.tool_calls
    IN  IF calls = <<>> THEN st
        ELSE IF \E j \in DOMAIN calls :
                    \/ calls[j].name \notin tools
                    \/ tool_raises(calls[j].name, calls[j].args)
        THEN st
        ELSE RunTurn(t, st \o [j \in DOMAIN calls |->
                 ToolMessage(t, calls[j].id, calls[j].name,
                             tool_invoke(calls[j].name, calls[j].args))])

\* C10: a turn that crashed between two items of a tool-call batch and was
\* resumed from the last checkpoint ends with the state of the same turn run
\* without interruption.
C10_ResumeEqualsUninterrupted ==
    \A t \in Threads :
        (outcome[t] = "final" /\ crashedMid[t]) =>
            get_history(t) = RunTurn(t, histBefore[t] \o <<submitted[t]>>)

C10_Witness ==
    \E t \in Threads :
        /\ outcome[t] = "final" /\ crashedMid[t]
        /\ Len(get_history(t)) > Len(histBefore[t]) + 3

RECURSIVE Join(_)
Join(fragments) ==
    IF fragments = <<>> THEN ""
    ELSE Head(fragments) \o Join(Tail(fragments))

\* C11: for a turn consumed at token granularity that ran to its final answer,
\* the printed fragments are all non-empty and their concatenation equals the
\* content of the turn's final assistant message.
C11_TokensReconstructFinal ==
    \A t \in Threads :
        (outcome[t] = "final" /\ ~interrupted[t]) =>
            /\ \A i \in DOMAIN tokens[t] : tokens[t][i] # ""
            /\ Join(tokens[t]) = Last(get_history(t)).content

RECURSIVE Flatten(_)
Flatten(evs) ==
    IF evs = <<>> THEN <<>>
    ELSE Head(evs).messages \o Flatten(Tail(evs))

\* The messages a history holds after the user message of the current turn.
NewMessages(t, h) == SubSeq(h, Len(histBefore[t]) + 2, Len(h))

\* C12: for a turn consumed at step granularity, the events received so far
\* carry, concatenated, exactly the messages the loop has produced in the turn;
\* the events alternate between one assistant decision and one batch of tool
\* results (one event per transition), and the stream of a completed turn ends
\* with the final assistant message.
C12_StepEventsReconstructTurn ==
    \A t \in Threads :
        (~interrupted[t] /\ checkpoints[t] # <<>>) =>
            LET h   == get_history(t)
                evs == events[t]
            IN  /\ Flatten(evs) = NewMessages(t, h)
                /\ \A i \in DOMAIN evs :
                       /\ evs[i].node = (IF i % 2 = 1 THEN "llm" ELSE "action")
                       /\ evs[i].node = "llm" =>
                              /\ Len(evs[i].messages) = 1
                              /\ evs[i].messages[1].role = "assistant"
                       /\ evs[i].node = "action" =>
                              /\ Len(evs[i].messages) =
                                     Len(evs[i - 1].messages[1].tool_calls)
                              /\ \A j \in DOMAIN evs[i].messages :
                                     evs[i].messages[j].role = "tool"
                /\ outcome[t] = "final" =>
                       /\ evs # <<>>
                       /\ Last(evs).node = "llm"
                       /\ Last(evs).messages = <<Last(h)>>
                       /\ Last(h).tool_calls = <<>>

C12_Witness ==
    \E t \in Threads :
        /\ ~interrupted[t] /\ outcome[t] = "final"
        /\ Len(events[t]) = 5
        /\ Len(events[t][2].messages) = 2
        /\ Len(Flatten(events[t])) = 6

\* C13: a thread whose turn reached its final answer is idle again (a further
\* stream on it is accepted), and the first model call of the next turn gets
\* the system prompt, then the whole persisted history of the earlier turns,
\* then the new user message.
C13_NextTurnSeesWholeHistory ==
    \A t \in Threads :
        /\ outcome[t] = "final" => (pc[t] = "idle" /\ state[t] = <<>>)
        /\ (outcome[t] = "final" /\ nSubmits < MaxSubmits) =>
               \A u \in UserTexts : ENABLED stream_ok(t, u)
        /\ (/\ ~interrupted[t]
            /\ histBefore[t] # <<>>
            /\ Len(checkpoints[t]) >= 2
            /\ Len(get_history(t)) = Len(histBefore[t]) + 2) =>
               /\ Len(turns[t]) >= 2
               /\ histBefore[t] =
                      Transcript(SubSeq(turns[t], 1, Len(turns[t]) - 1))
               /\ Last(histBefore[t]).role = "assistant"
               /\ modelInput[t] =
                      <<SystemMessage(system)>> \o histBefore[t]
                          \o <<submitted[t]>>

C13_Witness ==
    \E t \in Threads :
        /\ ~interrupted[t]
        /\ Len(histBefore[t]) = 4
        /\ Len(get_history(t)) = 6
        /\ Len(modelInput[t]) = 6

\* C14: a thread_id that has no checkpoint has the empty history; a stream on
\* it is accepted without any creation step and starts from the user message
\* alone, so the first model call gets the system prompt and that one message,
\* whatever the other threads hold.
C14_UnseenThreadStartsEmpty ==
    \A t \in Threads :
        /\ checkpoints[t] = <<>> =>
               /\ get_history(t) = <<>>
               /\ (pc[t] = "idle" /\ nSubmits < MaxSubmits) =>
                      \A u \in UserTexts : ENABLED stream_ok(t, u)
        /\ (~interrupted[t] /\ turns[t] # <<>> /\ Len(turns[t]) = 1) =>
               /\ histBefore[t] = <<>>
               /\ checkpoints[t][1].messages = <<submitted[t]>>
               /\ Len(checkpoints[t]) >= 2 =>
                      /\ modelInput[t][1] = SystemMessage(system)
                      /\ modelInput[t][2] = submitted[t]
                      /\ \A i \in 2..Len(modelInput[t]) :
                             modelInput[t][i].origin = t

C14_Witness ==
    \E t, s \in Threads :
        /\ s # t
        /\ get_history(s) # <<>>
        /\ ~interrupted[t] /\ Len(turns[t]) = 1
        /\ Len(checkpoints[t]) = 2
        /\ Len(modelInput[t]) = 2

\* C15: no two turns are in flight for the same thread_id.
C15_OneTurnInFlightPerThread ==
    \A c, d \in Threads :
        (c # d /\ thread[c] = thread[d]) =>
            ~(pc[c] # "idle" /\ pc[d] # "idle")

\* The checkpoints a thread gets when its turns are run alone, one after the
\* other, each to its end: AloneSteps runs the nodes from the node "llm",
\* AloneTurn one stream call, AloneRun the turns of a list of user texts.
Checkpoint(cps, messages, next) ==
    Append(cps, [step |-> Len(cps), messages |-> messages, next |-> next])

RECURSIVE AloneSteps(_, _, _)
AloneSteps(t, cps, messages) ==
    LET message == model_invoke(t, with_system(messages))
        st      == messages \o <<message>>
        calls   == message.tool_calls
    IN  IF calls = <<>> THEN Checkpoint(cps, st, "END")
        ELSE IF \E j \in DOMAIN calls :
                    \/ calls[j].name \notin tools
                    \/ tool_raises(calls[j].name, calls[j].args)
        THEN Checkpoint(cps, st, "action")
        ELSE LET st2 == st \o [j \in DOMAIN calls |->
                           ToolMessage(t, calls[j].id, calls[j].name,
                                       tool_invoke(calls[j].name, calls[j].args))]
             IN  AloneSteps(t, Checkpoint(Checkpoint(cps, st, "action"),
                                          st2, "llm"), st2)

AloneTurn(t, cps, u) ==
    LET before == IF cps = <<>> THEN <<>> ELSE Last(cps).messages
        st     == before \o <<HumanMessage(t, u)>>
    IN  AloneSteps(t, Checkpoint(cps, st, "llm"), st)

RECURSIVE AloneRun(_, _)
AloneRun(t, users) ==
    IF users = <<>> THEN <<>>
    ELSE AloneTurn(t, AloneRun(t, SubSeq(users, 1, Len(users) - 1)),
                   Last(users))

\* The part of the program's state that belongs to a thread.
Own(t) ==
    <<checkpoints[t], pc[t], state[t], idx[t], results[t], events[t],
      tokens[t]>>

\* C16: while another thread has a model or tool call pending, a thread that
\* has a node to run can run it; a step changes what belongs to one thread
\* only; and the checkpoints of a thread whose turns were interleaved with
\* those of other threads are those of the same turns run alone (a prefix of
\* them while the turn is in flight).
C16_InterleavingEqualsAlone ==
    /\ [](\A t \in Threads :
            /\ (pc[t] # "idle" /\ \E s \in Threads \ {t} : pc[s] # "idle") =>
                   ENABLED NodeStep(t)
            /\ ~interrupted[t] =>
                   LET users == [i \in DOMAIN turns[t] |->
                                    turns[t][i].user.content]
                       alone == AloneRun(t, users)
                       n     == Len(checkpoints[t])
                   IN  /\ n <= Len(alone)
                       /\ checkpoints[t] = SubSeq(alone, 1, n)
                       /\ pc[t] = "idle" => checkpoints[t] = alone)
    /\ [][\A t, s \in Threads :
              (t # s /\ Own(t)' # Own(t)) => Own(s)' = Own(s)]_vars

C16_Witness ==
    /\ pc["1"] = "action" /\ pc["2"] = "llm"
    /\ ~interrupted["1"] /\ ~interrupted["2"]
    /\ Len(checkpoints["1"]) = 4
    /\ Len(checkpoints["2"]) = 3

IsPrefix(a, b) == Len(a) <= Len(b) /\ a = SubSeq(b, 1, Len(a))

\* C17: the checkpoints of a thread, oldest first, have strictly increasing
\* step numbers, and the messages of an earlier checkpoint are a prefix of the
\* messages of every later one.
C17_CheckpointsOrderedAndGrowing ==
    [](\A t \in Threads :
          \A i, j \in DOMAIN checkpoints[t] :
              i < j =>
                  /\ checkpoints[t][i].step < checkpoints[t][j].step
                  /\ IsPrefix(checkpoints[t][i].messages,
                              checkpoints[t][j].messages))

C17_Witness ==
    \E t \in Threads :
        /\ Len(checkpoints[t]) >= 6
        /\ Len(checkpoints[t][2].messages) < Len(Last(checkpoints[t]).messages)
        /\ \E k \in DOMAIN checkpoints[t] : checkpoints[t][k].next = "END"

\* The state of the Agent Loop of a thread.  FINALIZED is the thread at rest
\* after a final answer (it awaits input again); ABORTED is the thread at rest
\* after a run that an exception or a crash ended, which is no state of the
\* loop.
LoopState(t) ==
    CASE pc[t] = "llm" -> "DECIDING"
      [] pc[t] = "action" -> "EXECUTING_TOOLS"
      [] pc[t] = "idle" /\ outcome[t] = "none" -> "AWAITING_INPUT"
      [] pc[t] = "idle" /\ outcome[t] = "final" -> "FINALIZED"
      [] OTHER -> "ABORTED"

LoopEdges ==
    {<<"AWAITING_INPUT", "DECIDING">>, <<"FINALIZED", "DECIDING">>,
     <<"DECIDING", "EXECUTING_TOOLS">>, <<"DECIDING", "FINALIZED">>,
     <<"EXECUTING_TOOLS", "DECIDING">>}

\* C18: every step that takes the loop of a thread from one of its states to
\* another follows an edge of the graph: a turn starts with a model decision,
\* a decision leads to the tools or to the end, and the tools lead back to a
\* decision, never to the end and never to a second batch.
C18_OnlyGraphEdges ==
    [][\A t \in Threads :
          LET a == LoopState(t)
              b == LoopState(t)'
          IN  /\ (a # b /\ a # "ABORTED" /\ b # "ABORTED") =>
                     <<a, b>> \in LoopEdges
              /\ (/\ a = "EXECUTING_TOOLS" /\ b = "EXECUTING_TOOLS"
                  /\ <<state[t], idx[t], results[t]>>'
                         # <<state[t], idx[t], results[t]>>) =>
                     /\ state'[t] = state[t]
                     /\ idx'[t] = idx[t] + 1
              /\ (a = "EXECUTING_TOOLS" /\ b = "DECIDING") =>
                     Last(state'[t]).role = "tool"]_vars

C18_Witness ==
    \E t \in Threads :
        /\ LoopState(t) = "DECIDING"
        /\ ~interrupted[t]
        /\ Len(events[t]) = 4

\* C19: after a model decision the run goes to the node "action" exactly when
\* the assistant message just appended has a non-empty tool_calls list, and
\* ends otherwise; the text of the message plays no part.
C19_ToolCallsDecideTheEdge ==
    [](\A t \in Threads :
          /\ \A k \in DOMAIN checkpoints[t] :
                 LET ck == checkpoints[t][k]
                 IN  Last(ck.messages).role = "assistant" =>
                         /\ ck.next \in {"action", "END"}
                         /\ ck.next = "action" <=>
                                Last(ck.messages).tool_calls # <<>>
          /\ pc[t] = "action" =>
                 /\ Last(state[t]).role = "assistant"
                 /\ Last(state[t]).tool_calls # <<>>
          /\ (outcome[t] = "final" /\ pc[t] = "idle") =>
                 /\ Last(get_history(t)).role = "assistant"
                 /\ Last(get_history(t)).tool_calls = <<>>)

C19_Witness ==
    \E t \in Threads :
        /\ outcome[t] = "final"
        /\ \E k \in DOMAIN checkpoints[t] :
               /\ checkpoints[t][k].next = "action"
               /\ Last(checkpoints[t][k].messages).content # ""
        /\ Last(checkpoints[t]).next = "END"
        /\ Last(get_history(t)).content # ""

\* The model ends the turn for u after finitely many tool requests and every
\* tool call it asks for returns a result.
Returns(u) ==
    \A r \in DOMAIN Plan(u) : \A j \in DOMAIN Plan(u)[r] :
        /\ Plan(u)[r][j][1] \in tools
        /\ ~tool_raises(Plan(u)[r][j][1], Plan(u)[r][j][2])

\* C20: when no model call, tool call or write fails, a submitted turn whose
\* tool calls all return reaches its final answer, and the step events of a
\* turn are never more than one per decision and one per batch.
C20_TurnsTerminate ==
    \A t \in Threads :
        /\ [](Len(events[t]) <= 2 * Len(Plan(submitted[t].content)) + 1)
        /\ (pc[t] # "idle" /\ Returns(submitted[t].content))
               ~> (pc[t] = "idle" /\ outcome[t] = "final")

C20_Witness ==
    /\ \A t \in Threads :
           /\ pc[t] = "idle" /\ outcome[t] = "final" /\ ~interrupted[t]
           /\ Returns(submitted[t].content)
    /\ Len(events["1"]) = 5
    /\ Len(events["2"]) = 3

\* C21: a turn whose model asks for the tool on every decision never ends:
\* whatever the number of rounds it has made, the thread is at a node of the
\* graph that can run, the turn has not reached its final answer, and the
\* persisted history has grown by one assistant message per decision and one
\* tool message per executed call.
C21_NoIterationBound ==
    \A t \in Threads :
        submitted[t].content = "loop" =>
            LET h == get_history(t)
                n == AssistantSince(h)
            IN  /\ pc[t] \in {"llm", "action"}
                /\ outcome[t] = "running"
                /\ ENABLED (\/ call_openai_ok(t)
                            \/ take_action_next(t)
                            \/ take_action_return(t))
                /\ Last(h).role = "assistant" => Last(h).tool_calls # <<>>
                /\ Len(h) = Len(histBefore[t]) + 1 + 2 * n
                                - (IF pc[t] = "action" THEN 1 ELSE 0)

C21_Witness ==
    \E t \in Threads :
        /\ submitted[t].content = "loop"
        /\ pc[t] = "llm"
        /\ AssistantSince(state[t]) = MaxRounds
        /\ Len(get_history(t)) = Len(histBefore[t]) + 1 + 2 * MaxRounds

\* C22: the message sequence of every model call starts with the system
\* prompt and has no other system message, on the first decision of a first
\* turn as on a later decision of a later turn.
C22_PreambleOnceAtFront ==
    \A t \in Threads :
        (system # "" /\ modelInput[t] # <<>>) =>
            /\ modelInput[t][1] = SystemMessage(system)
            /\ \A i \in 2..Len(modelInput[t]) :
                   modelInput[t][i].role # "system"

C22_Witness ==
    \E t \in Threads :
        /\ Len(turns[t]) = 2
        /\ Len(modelInput[t]) >= 8
        /\ modelInput[t][1].role = "system"
        /\ Last(modelInput[t]).role = "tool"

\* The positions of the tool messages of h that answer a call of the
\* assistant message at position i.
Answers(h, i) ==
    {j \in DOMAIN h :
        /\ h[j].role = "tool"
        /\ \E c \in DOMAIN h[i].tool_calls :
               h[j].tool_call_id = h[i].tool_calls[c].id}

\* C23: in the persisted state of a thread, the tool calls of an assistant
\* message are answered by none of the tool messages or by all of them, right
\* after it and in the order of the calls; also after a KeyError on a later
\* call of a batch and after a crash between two calls of a batch.
C23_BatchPersistedWholeOrNotAtAll ==
    [](\A t \in Threads :
          LET h == get_history(t)
          IN  \A i \in DOMAIN h :
                  (h[i].role = "assistant" /\ h[i].tool_calls # <<>>) =>
                      LET n == Len(h[i].tool_calls)
                      IN  \/ Answers(h, i) = {}
                          \/ /\ Answers(h, i) = (i + 1)..(i + n)
                             /\ \A c \in 1..n :
                                    h[i + c].tool_call_id =
                                        h[i].tool_calls[c].id)

C23_Witness ==
    \E t, s \in Threads :
        /\ outcome[t] = "KeyError"
        /\ Len(Last(get_history(t)).tool_calls) = 2
        /\ outcome[s] = "crashed" /\ crashedMid[s]
        /\ Len(Last(get_history(s)).tool_calls) = 2

\* The fragments a token consumer is to print for the step events evs: the
\* non-empty chunks of the model calls that gave a final answer.
RECURSIVE FinalFragments(_)
FinalFragments(evs) ==
    IF evs = <<>> THEN <<>>
    ELSE LET ev == Last(evs)
             before == FinalFragments(SubSeq(evs, 1, Len(evs) - 1))
         IN  IF ev.node = "llm" /\ ev.messages[1].tool_calls = <<>>
             THEN on_chat_model_stream(before, stream_chunks(ev.messages[1]))
             ELSE before

\* C24: the token consumer prints nothing for a model call that asks for
\* tools, whatever text that call streams; what it has printed comes from
\* the model call that gave the final answer.
C24_NoTokensForToolRequests ==
    \A t \in Threads :
        ~interrupted[t] => tokens[t] = FinalFragments(events[t])

TwoTurnsDone(c, d) ==
    /\ c # d /\ thread[c] = thread[d]
    /\ pc[c] = "idle" /\ pc[d] = "idle"
    /\ outcome[c] = "final" /\ outcome[d] = "final"
    /\ ~interrupted[c] /\ ~interrupted[d]
    /\ Len(turns[c]) = 1 /\ Len(turns[d]) = 1
    /\ histBefore[c] = <<>>

\* The run of d started while the run of c was in flight: d loaded a state
\* that c had written, but not the state c ended with.
Overlapped(c, d) ==
    /\ histBefore[d] # <<>>
    /\ histBefore[d] # Transcript(turns[c])

\* C26: when two runs on one thread_id are let to interleave, the outcome is
\* decided by whether they overlapped: if the second started after the first
\* had ended, the history is the two turns in that order; if they overlapped,
\* the history is the state of the run that wrote last, shorter than the two
\* turns together and equal to their concatenation in neither order.
C26_OverlapLosesMessages ==
    \A c, d \in Threads :
        TwoTurnsDone(c, d) =>
            LET h  == load(checkpoints, thread[c])
                cd == Transcript(turns[c]) \o Transcript(turns[d])
                dc == Transcript(turns[d]) \o Transcript(turns[c])
            IN  IF Overlapped(c, d)
                THEN /\ h # cd /\ h # dc
                     /\ Len(h) < Len(cd)
                     /\ \/ h = Transcript(turns[c])
                        \/ h = histBefore[d] \o Transcript(turns[d])
                ELSE h = cd

C26_Witness ==
    \E c, d \in Threads :
        /\ TwoTurnsDone(c, d) /\ Overlapped(c, d)
        /\ load(checkpoints, thread[c]) = Transcript(turns[c])
        /\ \E k \in DOMAIN checkpoints[thread[c]] :
               checkpoints[thread[c]][k].messages
                   = histBefore[d] \o Transcript(turns[d])

\* The number of elements in the rows before row i.
RECURSIVE RowStart(_, _)
RowStart(rows, i) ==
    IF i <= 1 THEN 0 ELSE RowStart(rows, i - 1) + Len(rows[i - 1])

\* C27: what flatten(matrix) returns is a list object that is none of the rows;
\* it holds the elements of the rows in row order, each row's elements in
\* their own order (element j of row i is at position j after the elements of
\* the rows before i), so an empty row adds nothing and the length is the sum
\* of the row lengths; matrix and its rows hold what they held at the call.
C27_FlattenConcatenatesRows ==
    flatten_pc = "returned" =>
        LET out == lists[flattened]
        IN  /\ flattened \in DOMAIN lists
            /\ \A i \in DOMAIN matrix : flattened # matrix[i]
            /\ Len(out) = RowStart(argument, Len(argument) + 1)
            /\ \A i \in DOMAIN argument :
                   \A j \in DOMAIN argument[i] :
                       out[RowStart(argument, i) + j] = argument[i][j]
            /\ Len(matrix) = Len(argument)
            /\ \A i \in DOMAIN matrix : lists[matrix[i]] = argument[i]
            /\ argument = Recorded => out = <<1, 2, 3, 4>>

C27_Witness ==
    /\ flatten_pc = "returned"
    /\ argument = << <<1, 2>>, <<>>, <<2, 1>> >>
    /\ lists[flattened] = <<1, 2, 2, 1>>

\* The messages with role "system" in a sequence of messages.
SystemIn(messages) == {i \in DOMAIN messages : messages[i].role = "system"}

\* C28: the system prompt is in what the model is called with and nowhere in
\* the thread's state: no checkpoint of a thread, the state of the run in
\* flight, get_history, and no update a node returned holds a message with
\* role "system".
C28_PreambleNeverPersisted ==
    \A t \in Threads :
        /\ \A k \in DOMAIN checkpoints[t] :
               SystemIn(checkpoints[t][k].messages) = {}
        /\ SystemIn(state[t]) = {}
        /\ SystemIn(get_history(t)) = {}
        /\ SystemIn(Transcript(turns[t])) = {}
        /\ modelInput[t] # <<>> =>
               /\ SystemIn(modelInput[t]) # {}
               /\ SystemIn(Tail(modelInput[t])) = {}

C28_Witness ==
    \E t \in Threads :
        LET h == get_history(t)
        IN  /\ pc[t] = "idle" /\ outcome[t] = "final"
            /\ SystemIn(modelInput[t]) = {1}
            /\ Len(modelInput[t]) = 4
            /\ Len(h) = 4
            /\ h[1].role = "user"
            /\ h[2].role = "assistant" /\ Len(h[2].tool_calls) = 1
            /\ h[3].role = "tool" /\ h[3].tool_call_id = h[2].tool_calls[1].id
            /\ h[4].role = "assistant" /\ h[4].tool_calls = <<>>

\* C29: when no run is in flight on a thread and every turn on it ran to its
\* final answer, the history ends with an assistant message without
\* tool_calls, each assistant message with n tool_calls is followed by
\* exactly n tool messages carrying the ids of the calls in request order,
\* and each tool message is one of these.
C29_IdleHistoryWellFormed ==
    \A t \in Threads :
        (pc[t] = "idle" /\ outcome[t] = "final" /\ ~interrupted[t]) =>
            LET h == get_history(t)
            IN  /\ h # <<>>
                /\ Last(h).role = "assistant"
                /\ Last(h).tool_calls = <<>>
                /\ \A i \in DOMAIN h :
                       h[i].role = "assistant" =>
                           LET n == Len(h[i].tool_calls)
                           IN  /\ i + n <= Len(h)
                               /\ \A j \in 1..n :
                                      /\ h[i + j].role = "tool"
                                      /\ h[i + j].tool_call_id
                                             = h[i].tool_calls[j].id
                               /\ i + n < Len(h) => h[i + n + 1].role # "tool"
                /\ \A k \in DOMAIN h :
                       h[k].role = "tool" =>
                           \E i \in 1..(k - 1) :
                               /\ h[i].role = "assistant"
                               /\ k - i <= Len(h[i].tool_calls)
                               /\ \A m \in (i + 1)..k : h[m].role = "tool"

C29_Witness ==
    \E t \in Threads :
        LET h == get_history(t)
        IN  /\ pc[t] = "idle" /\ outcome[t] = "final" /\ ~interrupted[t]
            /\ Len(turns[t]) = 2
            /\ \E i \in DOMAIN h :
                   /\ h[i].role = "assistant"
                   /\ Len(h[i].tool_calls) = 2
                   /\ h[i + 3].role = "assistant"
            /\ \E i \in DOMAIN h :
                   /\ h[i].role = "assistant"
                   /\ Len(h[i].tool_calls) = 1

\* The (name, args) of the first n tool calls of a message.
Requests(message, n) ==
    [j \in 1..n |-> [name |-> message.tool_calls[j].name,
                     args |-> message.tool_calls[j].args]]

\* The (name, args) of every tool call of the messages of h, in order.
RECURSIVE Requested(_)
Requested(h) ==
    IF h = <<>> THEN <<>>
    ELSE Requested(SubSeq(h, 1, Len(h) - 1))
             \o Requests(Last(h), Len(Last(h).tool_calls))

\* C30: on a thread whose turns were not interrupted, the invocations the
\* tools have seen are the tool calls of the assistant messages, each once,
\* in request order and with the request's name and arguments: while
\* take_action runs, the calls of the earlier messages and the calls of the
\* latest assistant message before the loop's position; otherwise every call.
C30_EachRequestInvokedOnceInOrder ==
    \A t \in Threads :
        ~interrupted[t] =>
            IF pc[t] = "action"
            THEN invocations[t]
                     = Requested(SubSeq(state[t], 1, Len(state[t]) - 1))
                           \o Requests(Last(state[t]), idx[t] - 1)
            ELSE IF pc[t] = "llm"
            THEN invocations[t] = Requested(state[t])
            ELSE invocations[t] = Requested(get_history(t))

C30_Witness ==
    \E t \in Threads :
        /\ ~interrupted[t]
        /\ pc[t] = "idle" /\ outcome[t] = "final"
        /\ Len(invocations[t]) = 3
        /\ invocations[t][1].args = "sf"
        /\ invocations[t][2].args = "la"
        /\ invocations[t][3].args = "la"



==============================================================================
